---- MODULE Spec2Model ----
(***************************************************************************)
(* A model of formal_proof_printer.py: the length-bounded search for       *)
(* Hilbert-system proofs (three axiom schemas and Modus Ponens).           *)
(*                                                                         *)
(* Formulas are character strings, as in the program: equality is textual, *)
(* Len counts characters, SubSeq slices and \o concatenates.  The program  *)
(* is a single sequential function; each action below is one iteration of  *)
(* one of its loops (or the code between two loops), and pc records the    *)
(* position in the function.                                               *)
(***************************************************************************)
EXTENDS Integers, Sequences, FiniteSets, TLC

VARIABLES
    WFF_BASIS,              \* the configured list of basis formulas
    MAX_LENGTH,             \* the configured search depth
    proofs_at_len,          \* layer k -> list of proofs [steps, justs]
    seen_steps_at_len,      \* dict: present keys k -> set of step sequences
    total_proof_count,
    pc,                     \* position in find_all_proofs (or in a single call)
    inst_idx,               \* position of the length-1 loops (lines 176-180)
    k,                      \* the layer under construction (line 203)
    proof_idx,              \* position of `for proof in prev_proofs` (line 211)
    ax_idx,                 \* position of `for axiom_proof in ...` (line 216)
    i,                      \* Option B outer index (line 232)
    j,                      \* Option B inner index (line 233)
    stopped,                \* which early-stop notice was written, if any
    mp_pos,                 \* position of `for proof in proofs_with_mp` (line 292)
    best_proofs_for_theorem,\* dict: theorem -> retained proof
    call                    \* a single call of a pure function: arguments and result

vars == <<WFF_BASIS, MAX_LENGTH, proofs_at_len, seen_steps_at_len,
          total_proof_count, pc, inst_idx, k, proof_idx, ax_idx, i, j,
          stopped, mp_pos, best_proofs_for_theorem, call>>

searchVars == <<WFF_BASIS, MAX_LENGTH, proofs_at_len, seen_steps_at_len,
                total_proof_count, inst_idx, k, proof_idx, ax_idx, i, j,
                stopped, mp_pos, best_proofs_for_theorem>>

-----------------------------------------------------------------------------
(* Bounds of the model.                                                    *)

\* The longest basis list drawn.
MaxBasisLen == 2
\* The largest MAX_LENGTH drawn.
MaxLength == 4
\* A configuration is drawn only if Len(WFF_BASIS) * MAX_LENGTH <= MaxWork:
\* layer k holds about (number of axiom instances)^k proofs.
MaxWork == 4
\* The basis formulas drawn are the first PoolSize entries of the configured list.
PoolSize == 2

-----------------------------------------------------------------------------
(* Strings.                                                                *)

\* Python's None, and a returned value v, for a function returning str or None.
None == <<>>
Some(v) == <<v>>

\* s[n] for a 1-based n.
CharAt(s, n) == SubSeq(s, n, n)

\* str.startswith
startswith(s, prefix) ==
    /\ Len(prefix) <= Len(s)
    /\ SubSeq(s, 1, Len(prefix)) = prefix

\* str.endswith
endswith(s, suffix) ==
    /\ Len(suffix) <= Len(s)
    /\ SubSeq(s, Len(s) - Len(suffix) + 1, Len(s)) = suffix

\* Python's s[start:-1] for a 0-based start.
SliceToLast(s, start) ==
    IF start + 1 <= Len(s) - 1 THEN SubSeq(s, start + 1, Len(s) - 1) ELSE ""

\* The characters the regular expression class \w matches, among those of
\* formulas and templates.  The others are ( ) ¬ → and the space.
WordChars == {"a", "b", "A", "B", "C"}

\* \b between 1-based positions n-1 and n of s (n in 1..Len(s)+1).
WordBoundary(s, n) ==
    LET before == n - 1 >= 1 /\ CharAt(s, n - 1) \in WordChars
        after  == n <= Len(s) /\ CharAt(s, n) \in WordChars
    IN  before # after

\* Whether r'\b' + re.escape(var) + r'\b' matches s at position n.
MatchesAt(var, s, n) ==
    /\ n + Len(var) - 1 <= Len(s)
    /\ SubSeq(s, n, n + Len(var) - 1) = var
    /\ WordBoundary(s, n)
    /\ WordBoundary(s, n + Len(var))

\* re.sub(r'\b' + re.escape(var) + r'\b', wff, s): the non-overlapping matches,
\* leftmost first, each replaced by wff; the replacement is not scanned again.
\* From position n on: the text up to the next match is kept, the match is
\* replaced, and the scan goes on after it.
RECURSIVE re_sub_from(_, _, _, _)
re_sub_from(var, wff, s, n) ==
    LET matches == {m \in n..Len(s) : MatchesAt(var, s, m)}
    IN  IF matches = {} THEN SubSeq(s, n, Len(s))
        ELSE LET m == CHOOSE x \in matches : \A y \in matches : x <= y
             IN  SubSeq(s, n, m - 1) \o wff \o re_sub_from(var, wff, s, m + Len(var))

\* (The one-element sets only make the three arguments values, computed once,
\* before the scan starts.)
re_sub(var, wff, s) ==
    CHOOSE result \in { re_sub_from(v, w, t, 1) : v \in {var}, w \in {wff}, t \in {s} } :
        TRUE

-----------------------------------------------------------------------------
(* The basis, the axiom schemas and substitution, lines 64-112.            *)

\* The list of lines 64-72.
CONFIGURED_BASIS ==
    << "a", "b", "(¬a)", "(¬b)", "(a → a)", "(a → b)",
       "(¬(¬a))", "((¬a) → (¬b))", "((¬b) → (¬a))" >>

\* The dict of line 92, in insertion order.
AXIOM_TEMPLATES ==
    << [name |-> "A1", template |-> "(A → (B → A))", vars |-> <<"A", "B">>],
       [name |-> "A2", template |-> "((A → (B → C)) → ((A → B) → (A → C)))",
        vars |-> <<"A", "B", "C">>],
       [name |-> "A3", template |-> "((¬B → ¬A) → (A → B))", vars |-> <<"A", "B">>] >>

\* dict(zip(vars, combo)): a list of <<key, value>> in insertion order.
\* The variable lists hold no key twice.
zip_dict(vs, combo) ==
    [n \in 1..(IF Len(vs) < Len(combo) THEN Len(vs) ELSE Len(combo)) |-> <<vs[n], combo[n]>>]

dict_keys(d) == [n \in 1..Len(d) |-> d[n][1]]

dict_get(d, key) == d[CHOOSE n \in 1..Len(d) : d[n][1] = key][2]

\* sorted(keys, key=len, reverse=True): longest first; the sort is stable, and
\* stays so under reverse=True, so keys of one length keep their order.
RECURSIVE sorted_by_len_desc(_)
sorted_by_len_desc(keys) ==
    IF keys = <<>> THEN <<>>
    ELSE LET first == CHOOSE n \in 1..Len(keys) :
                         /\ \A m \in 1..Len(keys) : Len(keys[m]) <= Len(keys[n])
                         /\ \A m \in 1..(n - 1) : Len(keys[m]) < Len(keys[n])
             rest == [m \in 1..(Len(keys) - 1) |-> IF m < first THEN keys[m] ELSE keys[m + 1]]
         IN  <<keys[first]>> \o sorted_by_len_desc(rest)

\* The loop of lines 108-111.
RECURSIVE substitute_keys(_, _, _)
substitute_keys(formula, keys, sub_dict) ==
    IF keys = <<>> THEN formula
    ELSE substitute_keys(re_sub(Head(keys), dict_get(sub_dict, Head(keys)), formula),
                         Tail(keys), sub_dict)

\* A substitute that replaces only the first occurrence of each variable.
re_sub_first(var, wff, s) ==
    LET matches == {m \in 1..Len(s) : MatchesAt(var, s, m)}
    IN  IF matches = {} THEN s
        ELSE LET m == CHOOSE x \in matches : \A y \in matches : x <= y
             IN  SubSeq(s, 1, m - 1) \o wff \o SubSeq(s, m + Len(var), Len(s))

RECURSIVE substitute_first_only(_, _)
substitute_first_only(template, sub_dict) ==
    IF sub_dict = <<>> THEN template
    ELSE substitute_first_only(
             re_sub_first(Head(sub_dict)[1], Head(sub_dict)[2], template),
             Tail(sub_dict))

\* Lines 98-112; sorted_keys is computed once, as the local variable of line 106.
substitute(template, sub_dict) ==
    CHOOSE formula \in
        { substitute_keys(template, sorted_keys, sub_dict) :
            sorted_keys \in { sorted_by_len_desc(dict_keys(sub_dict)) } } :
        TRUE

-----------------------------------------------------------------------------
(* Modus Ponens, lines 114-127.                                            *)

\* An apply_mp that does not test the closing parenthesis.
apply_mp_no_suffix_test(p, p_implies_q) ==
    LET expected_form == "(" \o p \o " → "
    IN  IF startswith(p_implies_q, expected_form)
        THEN Some(SliceToLast(p_implies_q, Len(expected_form)))
        ELSE None

apply_mp(p, p_implies_q) ==
    LET expected_form == "(" \o p \o " → "
    IN  IF startswith(p_implies_q, expected_form) /\ endswith(p_implies_q, ")")
        THEN Some(SliceToLast(p_implies_q, Len(expected_form)))
        ELSE None

\* get_proof_complexity, lines 147-152.
RECURSIVE get_proof_complexity(_)
get_proof_complexity(steps) ==
    IF steps = <<>> THEN 0 ELSE Len(Head(steps)) + get_proof_complexity(Tail(steps))

-----------------------------------------------------------------------------
(* The length-1 instances, lines 176-190.                                  *)

\* itertools.product(pool, repeat=repeat) as a list: the first position
\* varies slowest.
RECURSIVE product(_, _)
product(pool, repeat) ==
    IF repeat = 0 THEN << <<>> >>
    ELSE CHOOSE result \in
             { [n \in 1..(Len(pool) * Len(rest)) |->
                   <<pool[((n - 1) \div Len(rest)) + 1]>> \o rest[((n - 1) % Len(rest)) + 1]]
               : rest \in {product(pool, repeat - 1)} } : TRUE

\* The (schema, combo) pairs the two loops of lines 176 and 180 visit, in order.
RECURSIVE instances_from(_, _)
instances_from(basis, n) ==
    IF n > Len(AXIOM_TEMPLATES) THEN <<>>
    ELSE CHOOSE result \in
             { [m \in 1..Len(combos) |->
                   [schema |-> AXIOM_TEMPLATES[n], combo |-> combos[m]]]
               \o instances_from(basis, n + 1)
               : combos \in {product(basis, Len(AXIOM_TEMPLATES[n].vars))} } : TRUE

instances(basis) == instances_from(basis, 1)

\* ', '.join(f'{k}={v}' for k, v in sub_dict.items())
RECURSIVE sub_str(_)
sub_str(sub_dict) ==
    IF sub_dict = <<>> THEN ""
    ELSE Head(sub_dict)[1] \o "=" \o Head(sub_dict)[2]
         \o (IF Len(sub_dict) > 1 THEN ", " ELSE "") \o sub_str(Tail(sub_dict))

\* f"{name} [{sub_str}]"
axiom_just(name, sub_dict) == name \o " [" \o sub_str(sub_dict) \o "]"

\* A justification with the two line numbers exchanged.
mp_just_exchanged(ii, jj) == "MP (" \o ToString(jj + 1) \o "," \o ToString(ii + 1) \o ")"

\* f"MP ({i+1},{j+1})"
mp_just(ii, jj) == "MP (" \o ToString(ii + 1) \o "," \o ToString(jj + 1) \o ")"

-----------------------------------------------------------------------------
(* The two dicts of find_all_proofs.                                       *)

\* seen_steps_at_len[key]: a defaultdict(set) gives the empty set for a
\* missing key, and the access stores it.
seen_get(key) ==
    IF key \in DOMAIN seen_steps_at_len THEN seen_steps_at_len[key] ELSE {}

seen_with(key, value) ==
    [kk \in (DOMAIN seen_steps_at_len) \cup {key} |->
        IF kk = key THEN value ELSE seen_steps_at_len[kk]]

\* A pop that removes nothing.
dict_pop_nothing(d, key) == d

\* d.pop(key, None)
dict_pop(d, key) == [kk \in (DOMAIN d) \ {key} |-> d[kk]]

\* A tuple extended at the wrong end.
tuple_prepend(t, item) == <<item>> \o t

\* t + (item,)
tuple_append(t, item) == Append(t, item)

\* An insertion whose test is on the last step alone.
add_if_last_step_new(layer, new_steps, new_justs) ==
    IF \A pr \in {proofs_at_len[layer][n] : n \in 1..Len(proofs_at_len[layer])} :
           pr.steps[Len(pr.steps)] # new_steps[Len(new_steps)]
    THEN /\ proofs_at_len' = [proofs_at_len EXCEPT ![layer] =
                                 Append(@, [steps |-> new_steps, justs |-> new_justs])]
         /\ seen_steps_at_len' = seen_with(layer, seen_get(layer) \cup {new_steps})
         /\ total_proof_count' = total_proof_count + 1
    ELSE /\ seen_steps_at_len' = seen_with(layer, seen_get(layer))
         /\ UNCHANGED <<proofs_at_len, total_proof_count>>

\* An insertion that does not record the sequence as seen.
add_without_record(layer, new_steps, new_justs) ==
    IF new_steps \notin seen_get(layer)
    THEN /\ proofs_at_len' = [proofs_at_len EXCEPT ![layer] =
                                 Append(@, [steps |-> new_steps, justs |-> new_justs])]
         /\ seen_steps_at_len' = seen_with(layer, seen_get(layer))
         /\ total_proof_count' = total_proof_count + 1
    ELSE /\ seen_steps_at_len' = seen_with(layer, seen_get(layer))
         /\ UNCHANGED <<proofs_at_len, total_proof_count>>

\* An insertion that overwrites the stored proof of a sequence already seen.
add_keep_last(layer, new_steps, new_justs) ==
    IF new_steps \notin seen_get(layer)
    THEN /\ proofs_at_len' = [proofs_at_len EXCEPT ![layer] =
                                 Append(@, [steps |-> new_steps, justs |-> new_justs])]
         /\ seen_steps_at_len' = seen_with(layer, seen_get(layer) \cup {new_steps})
         /\ total_proof_count' = total_proof_count + 1
    ELSE /\ proofs_at_len' = [proofs_at_len EXCEPT ![layer] =
                 [n \in 1..Len(@) |-> IF @[n].steps = new_steps
                                      THEN [steps |-> new_steps, justs |-> new_justs]
                                      ELSE @[n]]]
         /\ seen_steps_at_len' = seen_with(layer, seen_get(layer))
         /\ UNCHANGED total_proof_count

\* Lines 193-197, 222-228 and 247-253: the proof is stored only if its step
\* sequence is not in the layer's seen set.
add_if_new(layer, new_steps, new_justs) ==
    IF new_steps \notin seen_get(layer)
    THEN /\ proofs_at_len' = [proofs_at_len EXCEPT ![layer] =
                                 Append(@, [steps |-> new_steps, justs |-> new_justs])]
         /\ seen_steps_at_len' = seen_with(layer, seen_get(layer) \cup {new_steps})
         /\ total_proof_count' = total_proof_count + 1
    ELSE /\ seen_steps_at_len' = seen_with(layer, seen_get(layer))
         /\ UNCHANGED <<proofs_at_len, total_proof_count>>

-----------------------------------------------------------------------------
(* find_all_proofs, lines 156-317.  Writes to the report file are not      *)
(* modelled, except that stopped records which early-stop notice (line 206 *)
(* or line 257) was written.                                               *)

Range(f) == {f[n] : n \in DOMAIN f}

\* The basis lists drawn: every list of at most MaxBasisLen of the first
\* PoolSize configured formulas.
BasisPool == {CONFIGURED_BASIS[n] : n \in 1..PoolSize}
BasisChoices == UNION {[1..n -> BasisPool] : n \in 0..MaxBasisLen}

\* Lines 164-170, for a drawn configuration.  proofs_at_len is a
\* defaultdict(list): every layer the function reads starts as the empty list.
Init ==
    /\ WFF_BASIS \in BasisChoices
    /\ MAX_LENGTH \in 1..MaxLength
    /\ Len(WFF_BASIS) * MAX_LENGTH <= MaxWork
    /\ proofs_at_len = [kk \in 1..MAX_LENGTH |-> <<>>]
    /\ seen_steps_at_len = <<>>
    /\ total_proof_count = 0
    /\ pc = "gen"
    /\ inst_idx = 1
    /\ k = 2
    /\ proof_idx = 1
    /\ ax_idx = 1
    /\ i = 0
    /\ j = 0
    /\ stopped = "no"
    /\ mp_pos = 1
    /\ best_proofs_for_theorem = <<>>
    /\ call = None

\* Lines 180-197: one (schema, combo) of the length-1 loops.
GenAxiom ==
    /\ pc = "gen"
    /\ inst_idx <= Len(instances(WFF_BASIS))
    /\ \E inst \in {instances(WFF_BASIS)[inst_idx]} :
          LET sub_dict == zip_dict(inst.schema.vars, inst.combo)
              just == axiom_just(inst.schema.name, sub_dict)
          IN  \E formula \in {substitute(inst.schema.template, sub_dict)} :
                 add_if_new(1, <<formula>>, <<just>>)
    /\ inst_idx' = inst_idx + 1
    /\ UNCHANGED <<WFF_BASIS, MAX_LENGTH, pc, k, proof_idx, ax_idx, i, j, stopped,
                   mp_pos, best_proofs_for_theorem, call>>

\* Lines 199-203: the length-1 loops are over; the loop on k starts at 2.
GenDone ==
    /\ pc = "gen"
    /\ inst_idx > Len(instances(WFF_BASIS))
    /\ pc' = "layer"
    /\ k' = 2
    /\ UNCHANGED <<WFF_BASIS, MAX_LENGTH, proofs_at_len, seen_steps_at_len,
                   total_proof_count, inst_idx, proof_idx, ax_idx, i, j, stopped,
                   mp_pos, best_proofs_for_theorem, call>>

\* Lines 203-211: layer k-1 is not empty, its first proof is taken.
LayerStart ==
    /\ pc = "layer"
    /\ k <= MAX_LENGTH
    /\ proofs_at_len[k - 1] # <<>>
    /\ pc' = "optA"
    /\ proof_idx' = 1
    /\ ax_idx' = 1
    /\ UNCHANGED <<WFF_BASIS, MAX_LENGTH, proofs_at_len, seen_steps_at_len,
                   total_proof_count, inst_idx, k, i, j, stopped, mp_pos,
                   best_proofs_for_theorem, call>>

\* Lines 205-207: layer k-1 is empty, the search stops.
LayerStopPrevEmpty ==
    /\ pc = "layer"
    /\ k <= MAX_LENGTH
    /\ proofs_at_len[k - 1] = <<>>
    /\ stopped' = "prev_empty"
    /\ pc' = "collect"
    /\ UNCHANGED <<WFF_BASIS, MAX_LENGTH, proofs_at_len, seen_steps_at_len,
                   total_proof_count, inst_idx, k, proof_idx, ax_idx, i, j, mp_pos,
                   best_proofs_for_theorem, call>>

\* Line 203: range(2, MAX_LENGTH + 1) is exhausted.
LoopExit ==
    /\ pc = "layer"
    /\ k > MAX_LENGTH
    /\ pc' = "collect"
    /\ UNCHANGED <<WFF_BASIS, MAX_LENGTH, proofs_at_len, seen_steps_at_len,
                   total_proof_count, inst_idx, k, proof_idx, ax_idx, i, j, stopped,
                   mp_pos, best_proofs_for_theorem, call>>

\* The proof of layer k-1 being extended (line 212).
CurrentProof == proofs_at_len[k - 1][proof_idx]

\* Lines 216-228: one axiom_proof of Option A.
OptionA ==
    /\ pc = "optA"
    /\ ax_idx <= Len(proofs_at_len[1])
    /\ LET axiom_proof == proofs_at_len[1][ax_idx]
           ax_step == axiom_proof.steps[1]
           ax_just == axiom_proof.justs[1]
           new_steps == tuple_append(CurrentProof.steps, ax_step)
       IN  add_if_new(k, new_steps, tuple_append(CurrentProof.justs, ax_just))
    /\ ax_idx' = ax_idx + 1
    /\ UNCHANGED <<WFF_BASIS, MAX_LENGTH, pc, inst_idx, k, proof_idx, i, j, stopped,
                   mp_pos, best_proofs_for_theorem, call>>

\* Lines 216 and 232: Option A's loop is over, Option B's starts.
OptionADone ==
    /\ pc = "optA"
    /\ ax_idx > Len(proofs_at_len[1])
    /\ pc' = "optB"
    /\ i' = 0
    /\ j' = 0
    /\ UNCHANGED <<WFF_BASIS, MAX_LENGTH, proofs_at_len, seen_steps_at_len,
                   total_proof_count, inst_idx, k, proof_idx, ax_idx, stopped, mp_pos,
                   best_proofs_for_theorem, call>>

\* A test that also skips the pairs with j < i.
skip_pair_unless_above(ii, jj) == ii >= jj

\* Line 234: `if i == j: continue`.
skip_pair(ii, jj) == ii = jj

\* Line 242: `if q:`; None and the empty string are both false.
truthy(ret) == ret # None /\ ret[1] # ""

\* Lines 233-253: one (i, j) of Option B.
OptionB ==
    /\ pc = "optB"
    /\ i < k - 1
    /\ j < k - 1
    /\ IF skip_pair(i, j)
       THEN UNCHANGED <<proofs_at_len, seen_steps_at_len, total_proof_count>>
       ELSE LET p == CurrentProof.steps[i + 1]
                p_implies_q == CurrentProof.steps[j + 1]
                q == apply_mp(p, p_implies_q)
            IN  IF truthy(q)
                THEN add_if_new(k, tuple_append(CurrentProof.steps, q[1]),
                                tuple_append(CurrentProof.justs, mp_just(i, j)))
                ELSE UNCHANGED <<proofs_at_len, seen_steps_at_len, total_proof_count>>
    /\ j' = j + 1
    /\ UNCHANGED <<WFF_BASIS, MAX_LENGTH, pc, inst_idx, k, proof_idx, ax_idx, i,
                   stopped, mp_pos, best_proofs_for_theorem, call>>

\* Lines 232-233: the inner loop is over, the next i is taken.
OptionBNextI ==
    /\ pc = "optB"
    /\ i < k - 1
    /\ j >= k - 1
    /\ i' = i + 1
    /\ j' = 0
    /\ UNCHANGED <<WFF_BASIS, MAX_LENGTH, proofs_at_len, seen_steps_at_len,
                   total_proof_count, pc, inst_idx, k, proof_idx, ax_idx, stopped,
                   mp_pos, best_proofs_for_theorem, call>>

\* Lines 211 and 232: Option B's loop is over; the next proof of layer k-1 is
\* taken, or the layer is complete.
NextProof ==
    /\ pc = "optB"
    /\ i >= k - 1
    /\ IF proof_idx < Len(proofs_at_len[k - 1])
       THEN /\ proof_idx' = proof_idx + 1
            /\ ax_idx' = 1
            /\ pc' = "optA"
       ELSE /\ pc' = "report"
            /\ UNCHANGED <<proof_idx, ax_idx>>
    /\ UNCHANGED <<WFF_BASIS, MAX_LENGTH, proofs_at_len, seen_steps_at_len,
                   total_proof_count, inst_idx, k, i, j, stopped, mp_pos,
                   best_proofs_for_theorem, call>>

\* Lines 255-260: the count of layer k is written; an empty layer stops the
\* search, otherwise the seen set of layer k-1 is dropped and k advances.
LayerReport ==
    /\ pc = "report"
    /\ IF proofs_at_len[k] = <<>>
       THEN /\ stopped' = "new_empty"
            /\ pc' = "collect"
            /\ UNCHANGED <<seen_steps_at_len, k>>
       ELSE /\ seen_steps_at_len' = dict_pop(seen_steps_at_len, k - 1)
            /\ k' = k + 1
            /\ pc' = "layer"
            /\ UNCHANGED stopped
    /\ UNCHANGED <<WFF_BASIS, MAX_LENGTH, proofs_at_len, total_proof_count,
                   inst_idx, proof_idx, ax_idx, i, j, mp_pos,
                   best_proofs_for_theorem, call>>

\* Lines 265-267: the layers 3..MAX_LENGTH, concatenated.
RECURSIVE all_proofs_from(_)
all_proofs_from(kk) ==
    IF kk > MAX_LENGTH THEN <<>> ELSE proofs_at_len[kk] \o all_proofs_from(kk + 1)

all_proofs == all_proofs_from(3)

\* Lines 275-279.
uses_mp(justs) == \E n \in 1..Len(justs) : startswith(justs[n], "MP")

\* Lines 272-281.
proofs_with_mp ==
    LET UsesMp(proof) == uses_mp(proof.justs)
    IN  SelectSeq(all_proofs, UsesMp)

\* Lines 265-290: the proofs are collected and filtered; with none left the
\* function returns.
Collect ==
    /\ pc = "collect"
    /\ IF proofs_with_mp = <<>>
       THEN /\ pc' = "done"
            /\ UNCHANGED <<mp_pos, best_proofs_for_theorem>>
       ELSE /\ pc' = "minimize"
            /\ mp_pos' = 1
            /\ best_proofs_for_theorem' = <<>>
    /\ UNCHANGED <<WFF_BASIS, MAX_LENGTH, proofs_at_len, seen_steps_at_len,
                   total_proof_count, inst_idx, k, proof_idx, ax_idx, i, j, stopped,
                   call>>

\* A comparison with the order reversed.
is_simpler_reversed(complexity, steps, current_best_complexity, current_best_steps) ==
    \/ complexity > current_best_complexity
    \/ (complexity = current_best_complexity /\ Len(steps) > Len(current_best_steps))

\* Lines 307-308.
is_simpler(complexity, steps, current_best_complexity, current_best_steps) ==
    \/ complexity < current_best_complexity
    \/ (complexity = current_best_complexity /\ Len(steps) < Len(current_best_steps))

\* Lines 292-309: one proof of the minimization loop.
Minimize ==
    /\ pc = "minimize"
    /\ mp_pos <= Len(proofs_with_mp)
    /\ LET proof == proofs_with_mp[mp_pos]
           steps == proof.steps
           theorem == steps[Len(steps)]
           complexity == get_proof_complexity(steps)
       IN  IF theorem \notin DOMAIN best_proofs_for_theorem
           THEN best_proofs_for_theorem' = (theorem :> proof) @@ best_proofs_for_theorem
           ELSE LET current_best_proof == best_proofs_for_theorem[theorem]
                    current_best_complexity == get_proof_complexity(current_best_proof.steps)
                IN  IF is_simpler(complexity, steps, current_best_complexity,
                                  current_best_proof.steps)
                    THEN best_proofs_for_theorem' =
                             (theorem :> proof) @@ best_proofs_for_theorem
                    ELSE UNCHANGED best_proofs_for_theorem
    /\ mp_pos' = mp_pos + 1
    /\ UNCHANGED <<WFF_BASIS, MAX_LENGTH, proofs_at_len, seen_steps_at_len,
                   total_proof_count, pc, inst_idx, k, proof_idx, ax_idx, i, j,
                   stopped, call>>

\* Lines 311-317: the loop is over; the retained proofs are written out.
Finish ==
    /\ pc = "minimize"
    /\ mp_pos > Len(proofs_with_mp)
    /\ pc' = "done"
    /\ UNCHANGED <<WFF_BASIS, MAX_LENGTH, proofs_at_len, seen_steps_at_len,
                   total_proof_count, inst_idx, k, proof_idx, ax_idx, i, j, stopped,
                   mp_pos, best_proofs_for_theorem, call>>

Next ==
    \/ GenAxiom
    \/ GenDone
    \/ LayerStart
    \/ LayerStopPrevEmpty
    \/ LoopExit
    \/ OptionA
    \/ OptionADone
    \/ OptionB
    \/ OptionBNextI
    \/ NextProof
    \/ LayerReport
    \/ Collect
    \/ Minimize
    \/ Finish

Spec == Init /\ [][Next]_vars

\* The program is one sequential function: it takes its next step whenever
\* it has one.
FairSpec == Spec /\ WF_vars(Next)

-----------------------------------------------------------------------------
(* Single calls of apply_mp and substitute, on the configured basis.       *)

\* The second arguments drawn for apply_mp(p, .): the implication of p and q,
\* and strings that miss it by a little.
MpArguments(p, q) ==
    { "(" \o p \o " → " \o q \o ")",
      "(" \o p \o " → " \o q,
      p \o " → " \o q \o ")",
      "(" \o p \o " →" \o q \o ")",
      "(" \o q \o " → " \o p \o ")",
      "(" \o p \o " → " \o ")",
      "(" \o p \o " → ",
      q }

\* The state of the search while a single call is examined: nothing has run.
SearchIdle ==
    /\ WFF_BASIS = CONFIGURED_BASIS
    /\ MAX_LENGTH = 1
    /\ proofs_at_len = [kk \in 1..1 |-> <<>>]
    /\ seen_steps_at_len = <<>>
    /\ total_proof_count = 0
    /\ inst_idx = 1
    /\ k = 2
    /\ proof_idx = 1
    /\ ax_idx = 1
    /\ i = 0
    /\ j = 0
    /\ stopped = "no"
    /\ mp_pos = 1
    /\ best_proofs_for_theorem = <<>>

\* apply_mp is about to be called on two formulas of the basis (q is the
\* formula the second argument was built from).
InitApplyMp ==
    /\ SearchIdle
    /\ pc = "call"
    /\ \E p \in Range(CONFIGURED_BASIS), q \in Range(CONFIGURED_BASIS) :
          \E m \in MpArguments(p, q) :
             call = [fn |-> "apply_mp", p |-> p, q |-> q, p_implies_q |-> m,
                     ret |-> None]

\* substitute is about to be called as line 187 calls it, for one (schema,
\* combo) of the configured basis.
InitSubstitute ==
    /\ SearchIdle
    /\ pc = "call"
    /\ \E inst \in Range(instances(CONFIGURED_BASIS)) :
          call = [fn |-> "substitute", template |-> inst.schema.template,
                  sub_dict |-> zip_dict(inst.schema.vars, inst.combo),
                  ret |-> None]

InitCall == InitApplyMp \/ InitSubstitute

\* The call of apply_mp returns.
CallApplyMp ==
    /\ pc = "call"
    /\ call.fn = "apply_mp"
    /\ call' = [call EXCEPT !.ret = apply_mp(call.p, call.p_implies_q)]
    /\ pc' = "returned"
    /\ UNCHANGED searchVars

\* The call of substitute returns.
CallSubstitute ==
    /\ pc = "call"
    /\ call.fn = "substitute"
    /\ call' = [call EXCEPT !.ret = Some(substitute(call.template, call.sub_dict))]
    /\ pc' = "returned"
    /\ UNCHANGED searchVars

NextCall == CallApplyMp \/ CallSubstitute

CallSpec == InitCall /\ [][NextCall]_vars

-----------------------------------------------------------------------------
(* Properties of single calls (checked under CallSpec).                    *)

\* Stated without startswith, endswith and the slices of the functions.
HasPrefix(s, prefix) == \E n \in 1..(Len(s) + 1) : s = prefix \o SubSeq(s, n, Len(s))
HasSuffix(s, suffix) == \E n \in 0..Len(s) : s = SubSeq(s, 1, n) \o suffix

\* C1: apply_mp(p, "(" + p + " → " + q + ")") returns exactly q for ground p
\* and non-empty ground q; and for every second argument that does not both
\* start with "(" + p + " → " and end with ")" it returns None.
C1_ApplyMpContract ==
    (pc = "returned" /\ call.fn = "apply_mp") =>
        /\ (call.q # "" /\ call.p_implies_q = "(" \o call.p \o " → " \o call.q \o ")")
               => call.ret = Some(call.q)
        /\ ~(HasPrefix(call.p_implies_q, "(" \o call.p \o " → ")
                /\ HasSuffix(call.p_implies_q, ")"))
               => call.ret = None

\* apply_mp has returned q for the implication of two different formulas.
C1_Witness ==
    /\ pc = "returned"
    /\ call.fn = "apply_mp"
    /\ call.p # call.q
    /\ call.p_implies_q = "(" \o call.p \o " → " \o call.q \o ")"
    /\ call.ret = Some(call.q)

SchemaVariables == {"A", "B", "C"}

\* The template with every schema-variable character replaced, all at once, by
\* the formula assigned to it, and every other character kept.
\* (The characters lo..hi of the template, by halves.)
RECURSIVE Replaced(_, _, _, _)
Replaced(template, sub_dict, lo, hi) ==
    IF lo > hi THEN ""
    ELSE IF lo = hi
    THEN LET c == SubSeq(template, lo, lo)
             hit == {m \in 1..Len(sub_dict) : sub_dict[m][1] = c}
         IN  IF hit = {} THEN c ELSE sub_dict[CHOOSE m \in hit : TRUE][2]
    ELSE LET mid == (lo + hi) \div 2
         IN  Replaced(template, sub_dict, lo, mid) \o Replaced(template, sub_dict, mid + 1, hi)

\* C2: for each schema and every assignment of ground basis formulas to its
\* variables, substitute leaves no schema variable in the result, and the
\* result is the template with every occurrence of each variable replaced by
\* its formula, simultaneously, the other characters kept in place.
C2_SubstituteContract ==
    (pc = "returned" /\ call.fn = "substitute") =>
        /\ call.ret = Some(Replaced(call.template, call.sub_dict, 1, Len(call.template)))
        /\ \A n \in 1..Len(call.ret[1]) :
              SubSeq(call.ret[1], n, n) \notin SchemaVariables

\* A1 with A=a, B=b has given "(a → (b → a))".
C2_Witness ==
    /\ pc = "returned"
    /\ call.fn = "substitute"
    /\ call.template = "(A → (B → A))"
    /\ call.sub_dict = << <<"A", "a">>, <<"B", "b">> >>
    /\ call.ret = Some("(a → (b → a))")

-----------------------------------------------------------------------------
(* Properties of the search (checked under Spec and FairSpec).             *)

Layer(kk) == Range(proofs_at_len[kk])
StepsOf(kk) == {proof.steps : proof \in Layer(kk)}
AxiomFormulas == {proof.steps[1] : proof \in Layer(1)}
MpText(line_p, line_pq) == "MP (" \o ToString(line_p) \o "," \o ToString(line_pq) \o ")"
IsMp(just) == Len(just) >= 2 /\ SubSeq(just, 1, 2) = "MP"

\* Layer kk has been fully built: the loop on k is past it, or is at the
\* report of its count.
Built(kk) ==
    /\ kk \in 2..MAX_LENGTH
    /\ pc # "gen"
    /\ \/ kk < k
       \/ kk = k /\ (pc = "report" \/ stopped = "new_empty")

\* Layer kk has just been completed, or the search is over and it was built.
\* (A built layer does not change any more: C4.)
JustBuilt(kk) ==
    /\ Built(kk)
    /\ \/ kk = k /\ pc = "report"
       \/ pc = "done"

\* The extensions of the proofs of layer kk-1 by an axiom formula or by a
\* Modus Ponens consequence of two different lines.
Extensions(kk) ==
    UNION { { Append(proof.steps, f) : f \in AxiomFormulas }
            \cup { Append(proof.steps, apply_mp(proof.steps[a], proof.steps[b])[1]) :
                     <<a, b>> \in { pair \in (1..(kk - 1)) \X (1..(kk - 1)) :
                                      /\ pair[1] # pair[2]
                                      /\ apply_mp(proof.steps[pair[1]],
                                                  proof.steps[pair[2]]) # None } }
          : proof \in Layer(kk - 1) }

\* C3: every built layer k >= 2 holds exactly the step sequences P ++ [f] with
\* P in layer k-1 and f an axiom formula or a Modus Ponens consequence of two
\* different lines of P: none is missing, none is extra.  (Stated when the
\* layer is completed and again, for every built layer, when the search ends.)
C3_LayerExhaustive ==
    \A kk \in 2..MAX_LENGTH : JustBuilt(kk) => StepsOf(kk) = Extensions(kk)

\* Layer 3 is built and holds a proof that ends in a Modus Ponens step.
C3_Witness ==
    /\ Built(3)
    /\ \E proof \in Layer(3) : IsMp(proof.justs[3])

PrefixInvariant ==
    \A kk \in 2..MAX_LENGTH : \A proof \in Layer(kk) :
        /\ Len(proof.steps) = kk
        /\ Len(proof.justs) = kk
        /\ [steps |-> SubSeq(proof.steps, 1, kk - 1),
            justs |-> SubSeq(proof.justs, 1, kk - 1)] \in Layer(kk - 1)

LayersOnlyGrow ==
    \A kk \in 1..MAX_LENGTH :
        /\ Len(proofs_at_len'[kk]) >= Len(proofs_at_len[kk])
        /\ SubSeq(proofs_at_len'[kk], 1, Len(proofs_at_len[kk])) = proofs_at_len[kk]

\* C4: at every point every proof of a layer k >= 2 is a proof of layer k-1
\* (steps and justifications) with exactly one pair appended, and no step of a
\* stored proof is ever reordered, edited or removed.
C4_PrefixInvariant == [][PrefixInvariant' /\ LayersOnlyGrow]_vars

\* Layer 4 holds a proof whose third and fourth steps both come from Modus Ponens.
C4_Witness ==
    /\ MAX_LENGTH >= 4
    /\ \E proof \in Layer(4) : IsMp(proof.justs[3]) /\ IsMp(proof.justs[4])

\* The step sequence the next step of the search tries to add, with its
\* layer, as a set of at most one <<layer, steps>>.
Attempted ==
    IF pc = "gen" /\ inst_idx <= Len(instances(WFF_BASIS))
    THEN LET inst == instances(WFF_BASIS)[inst_idx]
         IN  { <<1, <<substitute(inst.schema.template,
                                 zip_dict(inst.schema.vars, inst.combo))>> >> }
    ELSE IF pc = "optA" /\ ax_idx <= Len(proofs_at_len[1])
    THEN { <<k, Append(CurrentProof.steps, proofs_at_len[1][ax_idx].steps[1])>> }
    ELSE IF pc = "optB" /\ i < k - 1 /\ j < k - 1 /\ i # j
            /\ truthy(apply_mp(CurrentProof.steps[i + 1], CurrentProof.steps[j + 1]))
    THEN { <<k, Append(CurrentProof.steps,
                       apply_mp(CurrentProof.steps[i + 1], CurrentProof.steps[j + 1])[1])>> }
    ELSE {}

\* The next step tries to add a sequence its layer already holds.
DuplicateAttempt == \E at \in Attempted : at[2] \in StepsOf(at[1])

NoDuplicateSteps ==
    \A kk \in 1..MAX_LENGTH : Cardinality(StepsOf(kk)) = Len(proofs_at_len[kk])

\* C5: no layer ever holds two proofs with the same step sequence, and an
\* attempt to add a sequence the layer already holds leaves every layer's
\* proof list (so the first proof stored for the sequence) and the count
\* unchanged.
C5_StepSequenceDedup ==
    [][ /\ NoDuplicateSteps'
        /\ DuplicateAttempt => UNCHANGED <<proofs_at_len, total_proof_count>> ]_vars

\* Option B is about to derive again a sequence that layer 4 already holds.
C5_Witness == pc = "optB" /\ k = 4 /\ DuplicateAttempt

Last(t) == t[Len(t)]

\* The proofs of length 3..MAX_LENGTH with a Modus Ponens justification.
MpProofs ==
    {proof \in UNION {Layer(kk) : kk \in 3..MAX_LENGTH} :
        \E n \in 1..Len(proof.justs) : IsMp(proof.justs[n])}

RECURSIVE TotalLength(_)
TotalLength(steps) ==
    IF steps = <<>> THEN 0 ELSE Len(Head(steps)) + TotalLength(Tail(steps))

\* C6: after minimization every Modus Ponens proof Q of length >= 3 has its
\* final formula mapped to one retained proof R, itself such a proof ending in
\* that formula, with complexity(R) <= complexity(Q) and, on equal
\* complexity, no more steps than Q.
C6_MinimizerKeepsSimplest ==
    (pc = "done" /\ MpProofs # {}) =>
        /\ DOMAIN best_proofs_for_theorem = {Last(proof.steps) : proof \in MpProofs}
        /\ \A Q \in MpProofs :
              LET R == best_proofs_for_theorem[Last(Q.steps)]
              IN  /\ R \in MpProofs
                  /\ Last(R.steps) = Last(Q.steps)
                  /\ TotalLength(R.steps) <= TotalLength(Q.steps)
                  /\ TotalLength(R.steps) = TotalLength(Q.steps)
                         => Len(R.steps) <= Len(Q.steps)

\* Minimization is over and some theorem had a proof more complex than the
\* retained one.
C6_Witness ==
    /\ pc = "done"
    /\ \E Q \in MpProofs :
          /\ Last(Q.steps) \in DOMAIN best_proofs_for_theorem
          /\ TotalLength(best_proofs_for_theorem[Last(Q.steps)].steps) < TotalLength(Q.steps)

\* C7: in every proof of every layer a step n justified "MP (i,j)" has
\* 1 <= i < n, 1 <= j < n, i # j and step j = "(" + step i + " → " + step n + ")";
\* every other step is the formula of a length-1 proof.
C7_MpStepsValid ==
    LET axioms == AxiomFormulas
    IN  \A kk \in 1..MAX_LENGTH : \A proof \in Layer(kk) : \A n \in 1..Len(proof.steps) :
            IF IsMp(proof.justs[n])
            THEN \E a, b \in 1..(n - 1) :
                    /\ a # b
                    /\ proof.justs[n] = MpText(a, b)
                    /\ proof.steps[b]
                           = "(" \o proof.steps[a] \o " → " \o proof.steps[n] \o ")"
            ELSE proof.steps[n] \in axioms

\* Some proof has a step justified "MP (2,1)": the implication is the earlier line.
C7_Witness ==
    \E kk \in 3..MAX_LENGTH : \E proof \in Layer(kk) : proof.justs[3] = MpText(2, 1)

\* (a, b) is visited before (c, d) by the loops of lines 232-233.
PairBefore(a, b, c, d) == a < c \/ (a = c /\ b < d)

\* C8: a proof of a layer k >= 2 whose last step is justified "MP (i+1,j+1)"
\* does not end in an axiom formula (Option A comes first), and no pair of
\* different lines visited before (i, j) yields the same consequent.
C8_FirstDerivationKept ==
    \A kk \in 2..MAX_LENGTH : \A proof \in Layer(kk) :
        IsMp(proof.justs[kk]) =>
            \A a, b \in 0..(kk - 2) :
                proof.justs[kk] = MpText(a + 1, b + 1) =>
                    /\ proof.steps[kk] \notin AxiomFormulas
                    /\ \A c, d \in 0..(kk - 2) :
                          (c # d /\ PairBefore(c, d, a, b)) =>
                              apply_mp(proof.steps[c + 1], proof.steps[d + 1])
                                  # Some(proof.steps[kk])

\* A stored proof ends in "MP (1,2)" although a later pair of lines gives the
\* same consequent.
C8_Witness ==
    \E kk \in 4..MAX_LENGTH : \E proof \in Layer(kk) :
        /\ proof.justs[kk] = MpText(1, 2)
        /\ \E c, d \in 0..(kk - 2) :
              /\ c # d
              /\ PairBefore(0, 1, c, d)
              /\ apply_mp(proof.steps[c + 1], proof.steps[d + 1]) = Some(proof.steps[kk])

\* The lowest layer whose seen set may still be held: the layer below the one
\* under construction or, once the loop is over, the last layer constructed.
LowestHeld == IF stopped = "new_empty" THEN k ELSE k - 1

NoOldRecord == \A kk \in DOMAIN seen_steps_at_len : kk >= LowestHeld

\* C9: the report of layer k's count drops the seen set of layer k-1 and
\* changes no proof list; so at every point, also after an early stop, no seen
\* set of a layer below the last constructed one is held.
C9_SeenSetDiscarded ==
    [][ /\ pc = "report" => /\ (k - 1) \notin DOMAIN seen_steps_at_len'
                            /\ proofs_at_len' = proofs_at_len
        /\ NoOldRecord' ]_vars

\* Layer 2 is built and only its own seen set is left.
C9_Witness == pc = "layer" /\ k = 3 /\ DOMAIN seen_steps_at_len = {2}

C10_Safety ==
    /\ k <= MAX_LENGTH + 1
    /\ stopped # "new_empty"
    /\ stopped = "prev_empty" => (WFF_BASIS = <<>> /\ proofs_at_len[1] = <<>>)
    /\ \A kk \in 2..MAX_LENGTH :
          (Built(kk) /\ proofs_at_len[kk - 1] # <<>> /\ proofs_at_len[1] # <<>>) =>
              /\ proofs_at_len[kk] # <<>>
              /\ Len(proofs_at_len[kk]) >= Len(proofs_at_len[kk - 1]) * Len(proofs_at_len[1])
    /\ (pc = "done" /\ WFF_BASIS # <<>>) =>
          \A kk \in 1..MAX_LENGTH : proofs_at_len[kk] # <<>>

\* C10: the search terminates, having built at most the layers 1..MAX_LENGTH;
\* a built layer k holds at least |layer k-1| * |layer 1| proofs when those
\* two are not empty; with a non-empty basis every layer is built, the stop
\* for an empty new layer is never taken, and the stop for an empty previous
\* layer is taken only with an empty basis.
C10_TerminatesAllLayersBuilt == <>(pc = "done") /\ []C10_Safety

\* The search is over with a non-empty basis and MAX_LENGTH layers.
C10_Witness ==
    /\ pc = "done"
    /\ WFF_BASIS # <<>>
    /\ MAX_LENGTH = MaxLength
    /\ proofs_at_len[MAX_LENGTH] # <<>>

====
